---- MODULE Spec2Model ----
(***************************************************************************)
(* FlowKit: the Flow Executor's FCB engine and durable FCB queue           *)
(* (src/src/FlowKitControlUint) and the Node Runner's task manager         *)
(* (src/src/NodeRunner/node_runner/task_manager).                          *)
(*                                                                         *)
(* Spec     the executor within one process lifetime: the operations of    *)
(*          FCBQueue and the steps of the worker pool threads running      *)
(*          FlowControlBlock._run_node.                                    *)
(* HttpSpec the executor as main.py exposes it: the three endpoints, the   *)
(*          worker threads, and a process restart followed by              *)
(*          recover_from_storage.                                          *)
(* MgrSpec  the Node Runner: Manager.run_node with its secret resolution  *)
(*          and NPU choice, add_npu, the NPU's callbacks.                  *)
(* RecSpec  the Trace Recorder (src/src/FlowTraceMonitor): save_trace.     *)
(* SavSpec  a block's get_save_state and load_from_save_state.             *)
(* CodSpec  the code of one step on its way from the flow to the NPU and    *)
(*          back to the trace and the checkpoint.                          *)
(* RcvSpec  recover_from_storage over the documents of the collection.     *)
(* NpuSpec  a Node Process Unit (src/src/NodeProcessUnit/main.py): the      *)
(*          /run-node queue, the Worker threads and the child processes.   *)
(* PoolSpec several flows driven to their end by the threads of the shared  *)
(*          worker pool, under fair scheduling.                            *)
(* SecSpec  the Node Runner's secret resolution (task_manager/node.py).     *)
(* SesSpec  the Node Runner's NPU session (npu_manager/session.py):        *)
(*          add_npu, update_metrics and the cleanup loop.                  *)
(***************************************************************************)
EXTENDS Integers, Sequences, FiniteSets, TLC

\* ------------------------------------------------------------------ bounds
MaxSubmit  == 2      \* _run_node submissions per flow by start / resumse / exec
MaxCrashes == 1      \* restarts of the executor process
MaxCallbacks == 3    \* result and log callbacks delivered to the runner
MaxLogs    == 2      \* log lines kept per in-flight record
MaxTraces  == 4      \* save_trace calls made to the Trace Recorder
MaxTime    == 5      \* seconds the Node Runner process is followed for
ExpirySeconds == 2   \* NpuSession(expiry_seconds=...)
MaxText    == 2      \* tokens in a text given to resolve_secrets
MaxValue   == 1      \* tokens in a secret's value
MaxQueue   == 2      \* entries of node_exec_queue in a block that is saved
MaxDocs    == 3      \* documents in the collection when the process comes up
MaxFlows   == 2      \* flows sharing the worker pool
MaxWorkers == 1      \* threads of the pool that are followed
MaxJobs    == 3      \* jobs POSTed to one NPU's /run-node
MaxParallel == 2     \* Worker threads of the NPU (PARALLEL_PROCESS)

\* --------------------------------------------------------------- constants
FlowIds   == {"f1"}              \* the uuid4 values add_fcb can draw
NodeNames == {"a", "b"}          \* keys of flow.nodes
Ghost     == "ghost"             \* a successor name that is no key of flow.nodes
NoNode    == "none"              \* None
In0       == "in0"               \* curr_inp of the /fcb/add request
\* the names the curr_node of a /fcb/add request can carry: Flow.__init__
\* takes the node as given, whether or not its name is a key of nodes
PointerNames == NodeNames \cup {Ghost}

\* How the POST to the runner's /nodes/add-node can end for Node.run: "ok" is
\* a 2xx answer whose outputs.nodes is nodes and whose outputs.status is
\* status (outputs.outputs is identified by the node that produced it);
\* "error" is a non-2xx answer, a request error or a timeout. A node that
\* reports ERROR names no successors.
Responses ==
    {[kind |-> "error", nodes |-> <<>>, status |-> "none"]} \cup
    {[kind |-> "ok", nodes |-> <<>>, status |-> "ERROR"]} \cup
    {[kind |-> "ok", nodes |-> ns, status |-> "DONE"] :
        ns \in {<<>>, <<"b">>, <<"a", "b">>, <<"a", "b", "b">>, <<"b", Ghost>>}}

\* the answers with at most two successors, the ones the queue-level
\* specification is followed on
ShortResponses == {resp \in Responses : Len(resp.nodes) <= 2}

VARIABLES
    Blocks,     \* FlowControlBlockQueue.Blocks: the registered flow ids
    fcb,        \* flow id -> the FlowControlBlock object built for it
    tasks,      \* flow id -> the _run_node invocations submitted to the pool
    store,      \* the MongoDB collection: flow id -> document or NoDoc
    traces,     \* what reached the Trace Recorder, per flow, in arrival order
    steps,      \* per flow, how many times _run_node has read the pointer
    used,       \* the ids add_fcb has drawn so far
    crashes,    \* restarts so far
    \* the Node Runner's task manager
    active_nodes,  \* Manager.__active_nodes: runner id -> record or NoRec
    call,          \* runner id -> where the run_node call for it stands
    job,           \* runner id -> whether the NPU has received its /run-node
    accepted,      \* runner id -> the outputs the result callback has set
    ncb,           \* callbacks delivered so far
    \* the Trace Recorder
    flow_registry, \* flow id -> the sequence count kept in memory
    collection,    \* the trace collection: the records insert_one has stored
    inserting,     \* save_trace calls that are at their await insert_one
    \* the Node Runner's NPU session (Redis) and its sweeper
    clock,         \* time.time(), in seconds since the runner was imported
    npu_hash,      \* the Redis hashes npu:{id}: id -> its fields or NoKey
    npu_pool,      \* the Redis set npu:pool
    sweeper,       \* where the cleanup loop stands
    adding,        \* id -> where an add_npu call for it stands
    updating,      \* id -> where an update_metrics call for it stands
    missed,        \* id -> passes that ended with it listed though inactive
    \* secret resolution in the Node Runner
    resolving,     \* a resolve_secrets call: its text, the answers, its result
    \* a block taken through get_save_state and load_from_save_state
    snapshot,      \* the block, the dict saved from it, the block loaded back
    dispatch,      \* one step's code: where each copy of it is, and what it is
    recovery,      \* recover_from_storage: the documents found, the loop, Blocks
    pool,          \* the worker pool shared by the flows: work queue, threads, blocks
    npu            \* a Node Process Unit: QUEUE, its Worker threads, results sent

exe  == <<Blocks, fcb, tasks, store, traces, steps, used, crashes>>
mgr  == <<active_nodes, call, job, accepted, ncb>>
trc  == <<flow_registry, collection, inserting>>
ses  == <<clock, npu_hash, npu_pool, sweeper, adding, updating, missed>>
sec  == <<resolving>>
sav  == <<snapshot>>
cod  == <<dispatch>>
rcv  == <<recovery>>
thr  == <<pool>>
unit == <<npu>>
vars == <<exe, mgr, trc, ses, sec, sav, cod, rcv, thr, unit>>

\* what the steps of one component leave alone
outside_exe == <<mgr, trc, ses, sec, sav, cod, rcv, thr, unit>>
outside_mgr == <<exe, trc, ses, sec, sav, cod, rcv, thr, unit>>
outside_trc == <<exe, mgr, ses, sec, sav, cod, rcv, thr, unit>>
outside_ses == <<exe, mgr, trc, sec, sav, cod, rcv, thr, unit>>
outside_sec == <<exe, mgr, trc, ses, sav, cod, rcv, thr, unit>>
outside_sav == <<exe, mgr, trc, ses, sec, cod, rcv, thr, unit>>
outside_cod == <<exe, mgr, trc, ses, sec, sav, rcv, thr, unit>>
outside_rcv == <<exe, mgr, trc, ses, sec, sav, cod, thr, unit>>
outside_thr == <<exe, mgr, trc, ses, sec, sav, cod, rcv, unit>>
outside_unit == <<exe, mgr, trc, ses, sec, sav, cod, rcv, thr>>

\* ------------------------------------------------------------ FCB object
NoFcb == [status |-> "ABSENT", curr_node |-> NoNode, curr_inp_data |-> NoNode,
          node_exec_queue |-> <<>>]
NoDoc == [curr_node |-> NoNode, curr_inp_data |-> NoNode]

\* FlowControlBlock.__init__ over Flow(nodes, curr_inp, curr_node)
NewFcb(node, inp) ==
    [status |-> "QUEUED", curr_node |-> node, curr_inp_data |-> inp,
     node_exec_queue |-> <<>>]

\* a submitted, not yet started _run_node
NewTask == [pc |-> "queued", node |-> NoNode, step |-> 0, snap |-> NoDoc]

Live(t) == t.pc \notin {"done", "dead"}

\* a _run_node that has returned: only its step number is kept
Done(t) == [NewTask EXCEPT !.pc = "done", !.step = t.step]

\* FlowControlBlock.exec, run in one piece by the caller's thread
exec(b, ts) ==
    IF b.status \in {"PAUSE", "STOP"} THEN ts ELSE Append(ts, NewTask)

\* FlowControlBlock.start: result is the block and its submissions
start(b, ts) ==
    LET b1 == [b EXCEPT !.status = "START"]
    IN  [fcb |-> b1, tasks |-> exec(b1, ts)]

\* FlowControlBlock.stop
stop(b) == [b EXCEPT !.status = "STOP"]

\* FlowControlBlock.pause
pause(b) == [b EXCEPT !.status = "PAUSE"]

resumse_unguarded(b, ts) ==
    LET b1 == [b EXCEPT !.status = "START"]
    IN  [fcb |-> b1, tasks |-> exec(b1, ts)]

\* FlowControlBlock.resumse
resumse(b, ts) ==
    IF b.status = "PAUSE"
    THEN LET b1 == [b EXCEPT !.status = "START"]
         IN  [fcb |-> b1, tasks |-> exec(b1, ts)]
    ELSE [fcb |-> b, tasks |-> ts]

\* Node.run on the runner's answer. On a 2xx answer it returns
\* NodeExecutionData(status="success", outputs=...). Each of its three except
\* branches builds NodeExecutionData(code_base64=..., status="failed", ...):
\* the model's required field is code, so pydantic rejects the call and the
\* ValidationError raised inside the handler leaves run.
NodeRun(resp) ==
    IF resp.kind = "ok"
    THEN [raised |-> FALSE, status |-> "success", nodes |-> resp.nodes,
          outputs_status |-> resp.status]
    ELSE [raised |-> TRUE, status |-> "none", nodes |-> <<>>,
          outputs_status |-> "none"]

\* Flow.to_dict, the state written by save_state_hook (the nodes are fixed)
to_dict(b) == [curr_node |-> b.curr_node, curr_inp_data |-> b.curr_inp_data]

\* --------------------------------------------------------------- Init
ExeInit ==
    /\ Blocks = {}
    /\ fcb = [f \in FlowIds |-> NoFcb]
    /\ tasks = [f \in FlowIds |-> <<>>]
    /\ store = [f \in FlowIds |-> NoDoc]
    /\ traces = [f \in FlowIds |-> <<>>]
    /\ steps = [f \in FlowIds |-> 0]
    /\ used = {}
    /\ crashes = 0

\* ------------------------------------------------- the runner's records
RunnerIds == {"r1", "r2"}        \* the uuid4 values dispatches are made under
Payloads  == {"o1", "o2"}        \* a callback's nodes, outputs and message
NoOut == [payload |-> "none", status |-> "none"]     \* outputs={}
NoRec == [status |-> "ABSENT", outputs |-> NoOut, logs |-> <<>>]
\* Node(..., outputs={}, status=NodeStatus.QUEUED, logs=[]) of run_node
NewRec == [status |-> "QUEUED", outputs |-> NoOut, logs |-> <<>>]

MgrInit ==
    /\ active_nodes = [r \in RunnerIds |-> NoRec]
    /\ call = [r \in RunnerIds |-> [pc |-> "idle", ret |-> NoRec]]
    /\ job = [r \in RunnerIds |-> "none"]
    /\ accepted = [r \in RunnerIds |-> {}]
    /\ ncb = 0

\* ------------------------------------------------- the Trace Recorder
TraceFlowIds == {"f1", "f2"}     \* the flow_id values of POST /trace

\* flow_registry: Dict[str, int] = {} (an absent key reads as 0)
RecInit ==
    /\ flow_registry = [fl \in TraceFlowIds |-> 0]
    /\ collection = {}
    /\ inserting = {}

\* ------------------------------------------------- the NPU session
NpuIds     == {"n1", "n2"}       \* the ids NPUs register under
ImportTime == 0                  \* time.time() when session.py was imported

\* no hash stored under npu:{id}
NoKey == [present |-> FALSE, full |-> FALSE, last_seen |-> 0, metrics |-> "none"]
\* the metrics a heartbeat carries ("m0" stands for the default NpuMetrics())
Metrics == {"m1"}
\* the cleanup loop between two passes
Asleep == [pc |-> "sleep", now |-> 0, todo |-> {}, cur |-> "none"]

\* the session right after NpuSession.init: Redis holds no NPU, the cleanup
\* loop has been created
SesInit ==
    /\ clock = ImportTime
    /\ npu_hash = [n \in NpuIds |-> NoKey]
    /\ npu_pool = {}
    /\ sweeper = Asleep
    /\ adding = [n \in NpuIds |-> "idle"]
    /\ updating = [n \in NpuIds |-> "idle"]
    /\ missed = [n \in NpuIds |-> 0]

\* ------------------------------------------------- secret resolution
\* A text is a sequence of tokens: "x" is a character of the code, and a key
\* K stands for one occurrence of the placeholder {{{secret::K}}}.
Keys   == {"A", "B"}
Tokens == {"x"} \cup Keys

\* the sequences over S of length at most n
SeqsUpTo(S, n) == UNION {[1 .. k -> S] : k \in 0 .. n}

Texts  == SeqsUpTo(Tokens, MaxText)
Values == SeqsUpTo(Tokens, MaxValue)

\* What GET {secret_manager}/get/{key} can answer: a status other than 200, a
\* 200 body that has no value field, or a 200 body with a value (maybe empty)
Answers ==
    {[kind |-> "non200", value |-> <<>>], [kind |-> "novalue", value |-> <<>>]}
    \cup {[kind |-> "ok", value |-> v] : v \in Values}

NoCall == [pc |-> "idle", text |-> <<>>,
           answers |-> [k \in Keys |-> [kind |-> "non200", value |-> <<>>]],
           raised |-> FALSE, out |-> <<>>]

SecInit == resolving = NoCall

\* ------------------------------------------------- a block's save state
\* Objects carry their class; the dicts of a save state do not.
None == [cls |-> "NoneType"]

\* Node(name, code, flow_lvl); a node's code and level go with its name here
NodeObj(name) ==
    [cls |-> "Node", name |-> name, code |-> <<"code", name>>,
     flow_lvl |-> IF name = "a" THEN 0 ELSE 1]
\* a node that is no value of flow.nodes
Stray == [cls |-> "Node", name |-> Ghost, code |-> <<"code", Ghost>>, flow_lvl |-> 2]

\* the members of BlockStatus
BlockStatus(value) == [cls |-> "BlockStatus", value |-> value]
StatusValues == {"QUEUED", "START", "PAUSE", "STOP"}

\* UUID(hex) and str(uuid)
UUID(hex) == [cls |-> "UUID", hex |-> hex]
str(uuid) == uuid.hex

\* the inputs a pointer or a queue entry carries
InpData == {In0, "out"}

\* the flows a block can hold: nodes is a dict over some of the names
FlowObjs ==
    {[cls |-> "Flow", nodes |-> [n \in ns |-> NodeObj(n)],
      curr_inp_data |-> d, curr_node |-> c] :
        ns \in SUBSET NodeNames, d \in InpData,
        c \in {None, Stray} \cup {NodeObj(n) : n \in NodeNames}}

\* the blocks get_save_state is followed on
BlockObjs ==
    {[cls |-> "FlowControlBlock", flow |-> fl, flow_id |-> UUID(f),
      node_exec_queue |-> q, status |-> BlockStatus(st)] :
        fl \in FlowObjs, f \in FlowIds,
        q \in SeqsUpTo({NodeObj(n) : n \in NodeNames} \X InpData, MaxQueue),
        st \in StatusValues}

NoSnapshot == [pc |-> "idle", block |-> None, state |-> None, loaded |-> None]

SavInit == snapshot = NoSnapshot

\* ---- one step's code, before the step is dispatched
\* no copy of the code at a place
NoCode == <<"none">>

NoDispatch == [pc |-> "idle", text |-> <<>>, answers |-> [k \in Keys |-> [kind |-> "non200", value |-> <<>>]],
               submitted |-> NoCode, record |-> NoCode, npu_request |-> NoCode,
               response |-> NoCode, trace |-> NoCode, checkpoint |-> NoCode]

CodInit == dispatch = NoDispatch

\* ---- the collection recover_from_storage finds
DocIds == 1 .. MaxDocs           \* the flow_id values of the documents

\* What a document can be: one save_state_hook wrote ("pointer", and "ended"
\* with curr_node None), or one that lacks "state", has a node without "code",
\* or has a flow_id that is no UUID
Shapes == {"pointer", "ended", "no_state", "no_code", "bad_flow_id"}

\* the collections: at most MaxDocs documents, each under a flow_id of its
\* own (update_one with upsert keeps one document per flow_id)
Collections ==
    UNION {{[i \in 1 .. k |-> [flow_id |-> i, shape |-> sh[i]]] :
                sh \in [1 .. k -> Shapes]} : k \in 0 .. MaxDocs}

RcvInit ==
    recovery = [pc |-> "down", docs |-> <<>>, pos |-> 1, fetch_error |-> FALSE,
                Blocks |-> [d \in DocIds |-> NoFcb], failed |-> {}]

\* ---- the worker pool before any flow is added
PoolFlows == 1 .. MaxFlows       \* the flows added to the queue
Workers   == 1 .. MaxWorkers     \* the threads of the ThreadPoolExecutor

IdleWorker == [pc |-> "idle", flow |-> 0, node |-> NoNode]

ThrInit ==
    pool = [work    |-> <<>>,
            threads |-> [t \in Workers |-> IdleWorker],
            blocks  |-> [f \in PoolFlows |-> NoFcb],
            visited |-> [f \in PoolFlows |-> 0],
            enqueued |-> [f \in PoolFlows |-> 0]]

\* ---- a Node Process Unit after its lifespan has started the workers
Jobs       == 1 .. MaxJobs       \* the runner_ids of the jobs
NpuWorkers == 1 .. MaxParallel   \* WORKERS

IdleNpuWorker == [pc |-> "idle", job |-> 0]

NpuInit ==
    npu = [QUEUE   |-> <<>>,
           workers |-> [w \in NpuWorkers |-> IdleNpuWorker],
           posted  |-> {},
           taken   |-> [j \in Jobs |-> 0],
           over    |-> {},
           result  |-> [j \in Jobs |-> "none"]]

Init == ExeInit /\ MgrInit /\ RecInit /\ SesInit /\ SecInit /\ SavInit /\ CodInit
        /\ RcvInit /\ ThrInit /\ NpuInit

\* ------------------------------------------------------ queue operations
\* FlowControlBlockQueue.add_fcb: a QUEUED block under a fresh uuid4
AddFcb(f, n) ==
    /\ f \notin used
    /\ fcb' = [fcb EXCEPT ![f] = NewFcb(n, In0)]
    /\ Blocks' = Blocks \cup {f}
    /\ used' = used \cup {f}
    /\ UNCHANGED <<tasks, store, traces, steps, crashes>>
    /\ UNCHANGED outside_exe

\* POST /fcb/add: add_fcb, then start_fcb on the id it returned
PostFcbAdd(f, n) ==
    /\ f \notin used
    /\ LET r == start(NewFcb(n, In0), <<>>)
       IN  /\ fcb' = [fcb EXCEPT ![f] = r.fcb]
           /\ tasks' = [tasks EXCEPT ![f] = r.tasks]
    /\ Blocks' = Blocks \cup {f}
    /\ used' = used \cup {f}
    /\ UNCHANGED <<store, traces, steps, crashes>>
    /\ UNCHANGED outside_exe

\* The queue operations below raise ValueError for an id that is not in
\* Blocks and change nothing then; the actions are the calls on a registered id.

\* FlowControlBlockQueue.start_fcb
StartFcb(f) ==
    /\ f \in Blocks
    /\ Len(tasks[f]) < MaxSubmit
    /\ LET r == start(fcb[f], tasks[f])
       IN  /\ fcb' = [fcb EXCEPT ![f] = r.fcb]
           /\ tasks' = [tasks EXCEPT ![f] = r.tasks]
    /\ UNCHANGED <<Blocks, store, traces, steps, used, crashes>>
    /\ UNCHANGED outside_exe

\* FlowControlBlockQueue.stop_fcb
StopFcb(f) ==
    /\ f \in Blocks
    /\ fcb' = [fcb EXCEPT ![f] = stop(fcb[f])]
    /\ Blocks' = Blocks \ {f}
    /\ store' = [store EXCEPT ![f] = NoDoc]
    /\ UNCHANGED <<tasks, traces, steps, used, crashes>>
    /\ UNCHANGED outside_exe

\* FlowControlBlockQueue.pause_fcb
PauseFcb(f) ==
    /\ f \in Blocks
    /\ fcb' = [fcb EXCEPT ![f] = pause(fcb[f])]
    /\ UNCHANGED <<Blocks, tasks, store, traces, steps, used, crashes>>
    /\ UNCHANGED outside_exe

\* FlowControlBlockQueue.resume_fcb: it calls fcb.resume(), and the class
\* defines resumse only, so on a registered id the call raises AttributeError
\* (the endpoint answers 500) and nothing has changed
ResumeFcb(f) ==
    /\ f \in Blocks
    /\ UNCHANGED vars

\* FlowControlBlock.resumse called on the block of a registered flow
Resumse(f) ==
    /\ f \in Blocks
    /\ fcb[f].status = "PAUSE" => Len(tasks[f]) < MaxSubmit
    /\ LET r == resumse(fcb[f], tasks[f])
       IN  /\ fcb' = [fcb EXCEPT ![f] = r.fcb]
           /\ tasks' = [tasks EXCEPT ![f] = r.tasks]
    /\ UNCHANGED <<Blocks, store, traces, steps, used, crashes>>
    /\ UNCHANGED outside_exe

\* ------------------------------------------- a step: _run_node on a pool thread
SetTask(f, i, t) == [tasks EXCEPT ![f][i] = t]

\* the for loop of exec_hook: append (flow.nodes[name], outputs.outputs) for
\* each name, raising at the first name that is no key of flow.nodes
\* a loop that puts the successors in front of the entries already pending
Enqueue_front(q, ns, data) ==
    IF \E k \in DOMAIN ns : ns[k] \notin NodeNames
    THEN [queue |-> q, raised |-> TRUE]
    ELSE [queue |-> [k \in DOMAIN ns |-> <<ns[k], data>>] \o q, raised |-> FALSE]

RECURSIVE Enqueue(_, _, _)
Enqueue(q, ns, data) ==
    IF ns = <<>> THEN [queue |-> q, raised |-> FALSE]
    ELSE IF Head(ns) \in NodeNames
         THEN Enqueue(Append(q, <<Head(ns), data>>), Tail(ns), data)
         ELSE [queue |-> q, raised |-> TRUE]

\* exec_hook up to set_pointer: the block after it, and where the step goes on
\* ("save": on to save_state_hook and exec; "trace": the hook has returned)
exec_hook(b, node, ns) ==
    LET e == Enqueue(b.node_exec_queue, ns, node)
        b1 == [b EXCEPT !.node_exec_queue = e.queue]
    IN  IF e.raised
        THEN [fcb |-> [b1 EXCEPT !.status = "STOP"], next |-> "trace"]
        ELSE IF e.queue = <<>>
        THEN [fcb |-> stop(b1), next |-> "trace"]
        ELSE [fcb |-> [b1 EXCEPT !.node_exec_queue = Tail(e.queue),
                                 !.curr_node = Head(e.queue)[1],
                                 !.curr_inp_data = Head(e.queue)[2]],
              next |-> "save"]

\* _run_node starts on a pool thread: it reads the pointer and dispatches
Begin(f, i) ==
    /\ tasks[f][i].pc = "queued"
    /\ IF fcb[f].curr_node = NoNode
       THEN /\ fcb' = [fcb EXCEPT ![f] = stop(fcb[f])]
            /\ tasks' = SetTask(f, i, Done(tasks[f][i]))
            /\ UNCHANGED steps
       ELSE /\ steps' = [steps EXCEPT ![f] = @ + 1]
            /\ tasks' = SetTask(f, i, [tasks[f][i] EXCEPT
                            !.pc = "run", !.node = fcb[f].curr_node,
                            !.step = steps[f] + 1])
            /\ UNCHANGED fcb
    /\ UNCHANGED <<Blocks, store, traces, used, crashes>>
    /\ UNCHANGED outside_exe

\* curr_node.run returns or raises. A raise is caught by _run_node: STOP, and
\* the step is over. On a result, exec_hook runs up to set_pointer.
Return(f, i, resp) ==
    /\ tasks[f][i].pc = "run"
    /\ LET r == NodeRun(resp)
       IN  IF r.raised
           THEN /\ fcb' = [fcb EXCEPT ![f].status = "STOP"]
                /\ tasks' = SetTask(f, i, Done(tasks[f][i]))
           ELSE LET h == exec_hook(fcb[f], tasks[f][i].node, r.nodes)
                IN  /\ fcb' = [fcb EXCEPT ![f] = h.fcb]
                    /\ tasks' = SetTask(f, i, [tasks[f][i] EXCEPT !.pc = h.next])
    /\ UNCHANGED <<Blocks, store, traces, steps, used, crashes>>
    /\ UNCHANGED outside_exe

\* an exec_hook that goes on to exec without a checkpoint
Save_skip(f, i) ==
    /\ tasks[f][i].pc = "save"
    /\ tasks' = SetTask(f, i, [tasks[f][i] EXCEPT !.pc = "exec"])
    /\ UNCHANGED <<Blocks, fcb, store, traces, steps, used, crashes>>
    /\ UNCHANGED outside_exe

\* save_state_hook: the membership test and the read of flow.to_dict()
Save(f, i) ==
    /\ tasks[f][i].pc = "save"
    /\ tasks' = SetTask(f, i,
          IF f \in Blocks
          THEN [tasks[f][i] EXCEPT !.pc = "upsert", !.snap = to_dict(fcb[f])]
          ELSE [tasks[f][i] EXCEPT !.pc = "exec"])
    /\ UNCHANGED <<Blocks, fcb, store, traces, steps, used, crashes>>
    /\ UNCHANGED outside_exe

\* save_state_hook: update_one(..., upsert=True)
Upsert(f, i) ==
    /\ tasks[f][i].pc = "upsert"
    /\ store' = [store EXCEPT ![f] = tasks[f][i].snap]
    /\ tasks' = SetTask(f, i, [tasks[f][i] EXCEPT !.pc = "exec", !.snap = NoDoc])
    /\ UNCHANGED <<Blocks, fcb, traces, steps, used, crashes>>
    /\ UNCHANGED outside_exe

\* exec on the pool thread: the status test
ExecCheck(f, i) ==
    /\ tasks[f][i].pc = "exec"
    /\ tasks' = SetTask(f, i, [tasks[f][i] EXCEPT !.pc =
          IF fcb[f].status \in {"PAUSE", "STOP"} THEN "trace" ELSE "submit"])
    /\ UNCHANGED <<Blocks, fcb, store, traces, steps, used, crashes>>
    /\ UNCHANGED outside_exe

\* exec on the pool thread: thread_pool.submit(self._run_node)
Submit(f, i) ==
    /\ tasks[f][i].pc = "submit"
    /\ Len(tasks[f]) < MaxSubmit
    /\ tasks' = [tasks EXCEPT ![f] =
          Append([@ EXCEPT ![i].pc = "trace"], NewTask)]
    /\ UNCHANGED <<Blocks, fcb, store, traces, steps, used, crashes>>
    /\ UNCHANGED outside_exe

\* post_trace_request, answered by the Trace Recorder
PostTrace(f, i) ==
    /\ tasks[f][i].pc = "trace"
    /\ traces' = [traces EXCEPT ![f] =
          Append(@, [node |-> tasks[f][i].node, step |-> tasks[f][i].step])]
    /\ tasks' = SetTask(f, i, Done(tasks[f][i]))
    /\ UNCHANGED <<Blocks, fcb, store, steps, used, crashes>>
    /\ UNCHANGED outside_exe

\* ------------------------------------------------ restart of the executor
\* the pool threads of the process that ended
Kill(ts) == [i \in DOMAIN ts |-> [NewTask EXCEPT !.pc = "dead"]]

\* one document of recover_from_storage: a QUEUED block on the stored pointer,
\* registered and started
Recovered(doc) == start(NewFcb(doc.curr_node, doc.curr_inp_data), <<>>)

\* The process ends (every block and pool thread with it) and comes up again:
\* lifespan runs recover_from_storage over the collection.
Restart ==
    /\ crashes < MaxCrashes
    /\ crashes' = crashes + 1
    /\ Blocks' = {f \in FlowIds : store[f] # NoDoc}
    /\ fcb' = [f \in FlowIds |->
                 IF store[f] # NoDoc THEN Recovered(store[f]).fcb ELSE NoFcb]
    /\ tasks' = [f \in FlowIds |->
                 Kill(tasks[f]) \o
                 (IF store[f] # NoDoc THEN Recovered(store[f]).tasks ELSE <<>>)]
    /\ UNCHANGED <<store, traces, steps, used>>
    /\ UNCHANGED outside_exe

\* ------------------------------------------ recover_from_storage (RcvSpec)
\* the body of the loop's inner try up to fcb.start(): the state read from the
\* document and the block built from it, or the exception raised on the way
reconstruct(doc) ==
    IF doc.shape \in {"no_state", "no_code", "bad_flow_id"}
    THEN [raised |-> TRUE, fcb |-> NoFcb]
    ELSE [raised |-> FALSE,
          fcb |-> Recovered([curr_node |-> IF doc.shape = "pointer" THEN "a" ELSE NoNode,
                             curr_inp_data |-> In0]).fcb]

\* a loop with no try of its own around a document
RecoverOne_abort ==
    /\ recovery.pc = "loop"
    /\ recovery.pos <= Len(recovery.docs)
    /\ LET doc == recovery.docs[recovery.pos]
           r   == reconstruct(doc)
       IN  recovery' =
             IF r.raised
             THEN [recovery EXCEPT !.pc = "aborted",
                                   !.failed = @ \cup {doc.flow_id}]
             ELSE [recovery EXCEPT !.pos = @ + 1,
                                   !.Blocks[doc.flow_id] = r.fcb]
    /\ UNCHANGED outside_rcv

\* lifespan calls recover_from_storage: collection.find({}) over what the
\* collection holds
RecoverFind(c) ==
    /\ recovery.pc = "down"
    /\ recovery' = [recovery EXCEPT !.pc = "loop", !.docs = c]
    /\ UNCHANGED outside_rcv

\* find, or the cursor while it is iterated, raises: the outer except logs it
\* and recover_from_storage returns
RecoverFetchError ==
    /\ \/ recovery.pc = "down"
       \/ recovery.pc = "loop" /\ recovery.pos <= Len(recovery.docs)
    /\ recovery' = [recovery EXCEPT !.pc = "aborted", !.fetch_error = TRUE]
    /\ UNCHANGED outside_rcv

\* one pass of the loop: the block is built, registered and started, or the
\* inner except logs the failure and the loop goes on
RecoverOne ==
    /\ recovery.pc = "loop"
    /\ recovery.pos <= Len(recovery.docs)
    /\ LET doc == recovery.docs[recovery.pos]
           r   == reconstruct(doc)
       IN  recovery' =
             IF r.raised
             THEN [recovery EXCEPT !.pos = @ + 1,
                                   !.failed = @ \cup {doc.flow_id}]
             ELSE [recovery EXCEPT !.pos = @ + 1,
                                   !.Blocks[doc.flow_id] = r.fcb]
    /\ UNCHANGED outside_rcv

\* the cursor is exhausted
RecoverEnd ==
    /\ recovery.pc = "loop"
    /\ recovery.pos > Len(recovery.docs)
    /\ recovery' = [recovery EXCEPT !.pc = "done"]
    /\ UNCHANGED outside_rcv

RcvNext ==
    \/ \E c \in Collections : RecoverFind(c)
    \/ RecoverFetchError
    \/ RecoverOne
    \/ RecoverEnd

RcvSpec == Init /\ [][RcvNext]_vars

\* ------------------------------------------- the shared pool (PoolSpec)
\* The successor relation of the flows followed here, acyclic: what the run
\* of a node can name in outputs.nodes
Succ == [n \in NodeNames |->
           IF n = "a" THEN {<<>>, <<"b">>, <<"b", "b">>} ELSE {<<>>}]

\* POST /fcb/add: the block is built on its first node and started, start's
\* exec submits _run_node to the pool
PoolAdd(f, n) ==
    /\ pool.blocks[f] = NoFcb
    /\ pool' = [pool EXCEPT !.blocks[f] = start(NewFcb(n, In0), <<>>).fcb,
                            !.work = Append(@, f),
                            !.enqueued[f] = 1]
    /\ UNCHANGED outside_thr

\* a thread that waits for the step it has submitted
PoolAnswer_wait(t, ns) ==
    /\ pool.threads[t].pc = "run"
    /\ ns \in Succ[pool.threads[t].node]
    /\ LET f == pool.threads[t].flow
           h == exec_hook(pool.blocks[f], pool.threads[t].node, ns)
       IN  pool' = [pool EXCEPT
                !.blocks[f] = h.fcb,
                !.enqueued[f] = @ + Len(ns),
                !.work = IF h.next = "save" /\ exec(h.fcb, <<>>) # <<>>
                         THEN Append(@, f) ELSE @,
                !.threads[t] = IF h.next = "save" /\ exec(h.fcb, <<>>) # <<>>
                               THEN [@ EXCEPT !.pc = "wait"] ELSE IdleWorker]
    /\ UNCHANGED outside_thr

\* an idle thread takes the oldest submission and runs _run_node up to the
\* dispatch: on a None pointer the block stops and the thread is idle again
PoolTake(t) ==
    /\ pool.threads[t].pc = "idle"
    /\ pool.work # <<>>
    /\ LET f == Head(pool.work)
           b == pool.blocks[f]
       IN  pool' = IF b.curr_node = NoNode
                   THEN [pool EXCEPT !.work = Tail(@),
                                     !.blocks[f] = stop(b)]
                   ELSE [pool EXCEPT !.work = Tail(@),
                                     !.visited[f] = @ + 1,
                                     !.threads[t] = [pc |-> "run", flow |-> f,
                                                     node |-> b.curr_node]]
    /\ UNCHANGED outside_thr

\* the dispatch returns a success naming successors of the node: exec_hook
\* enqueues them and moves the pointer, exec submits the next _run_node, the
\* trace is posted and the thread goes back to the pool
PoolAnswer(t, ns) ==
    /\ pool.threads[t].pc = "run"
    /\ ns \in Succ[pool.threads[t].node]
    /\ LET f == pool.threads[t].flow
           h == exec_hook(pool.blocks[f], pool.threads[t].node, ns)
       IN  pool' = [pool EXCEPT
                !.blocks[f] = h.fcb,
                !.enqueued[f] = @ + Len(ns),
                !.work = IF h.next = "save" /\ exec(h.fcb, <<>>) # <<>>
                         THEN Append(@, f) ELSE @,
                !.threads[t] = IdleWorker]
    /\ UNCHANGED outside_thr

PoolNext ==
    \/ \E f \in PoolFlows : \E n \in NodeNames : PoolAdd(f, n)
    \/ \E t \in Workers : PoolTake(t)
    \/ \E t \in Workers : \E ns \in UNION {Succ[n] : n \in NodeNames} :
          PoolAnswer(t, ns)

\* an idle thread of the pool takes waiting work, and every dispatch returns
PoolFair ==
    /\ \A t \in Workers : WF_vars(PoolTake(t))
    /\ \A t \in Workers : WF_vars(\E ns \in UNION {Succ[n] : n \in NodeNames} :
                                      PoolAnswer(t, ns))

PoolSpec == Init /\ [][PoolNext]_vars /\ PoolFair

\* ------------------------------------------ Node Process Unit (NpuSpec)
\* POST /run-node: QUEUE.put_nowait(node), answered "queued"
NpuRunNodePost(j) ==
    /\ j \notin npu.posted
    /\ npu' = [npu EXCEPT !.QUEUE = Append(@, j), !.posted = @ \cup {j}]
    /\ UNCHANGED outside_unit

\* Worker.run: get_data_from_queue under queue_lock returns a node, and
\* execute_python_code_optimized starts the child with subprocess.run
GetDataFromQueue(w) ==
    /\ npu.workers[w].pc = "idle"
    /\ npu.QUEUE # <<>>
    /\ LET j == Head(npu.QUEUE)
       IN  npu' = [npu EXCEPT !.QUEUE = Tail(@),
                              !.taken[j] = @ + 1,
                              !.workers[w] = [pc |-> "child", job |-> j]]
    /\ UNCHANGED outside_unit

\* the child's flowkit library posts /result/{runner_id} to the NPU, which
\* forwards it to the Node Runner's /npu/result/{runner_id}
ChildResult(w, st) ==
    /\ npu.workers[w].pc = "child"
    /\ npu.result[npu.workers[w].job] = "none"
    /\ npu' = [npu EXCEPT !.result[npu.workers[w].job] = st]
    /\ UNCHANGED outside_unit

\* subprocess.run returns, the child having exited (with or without a result
\* posted), or raises TimeoutExpired after 30 s: execute_python_code_optimized
\* returns (stdout, stderr), the worker logs them and goes back to the queue
ChildOver(w) ==
    /\ npu.workers[w].pc = "child"
    /\ npu' = [npu EXCEPT !.workers[w] = IdleNpuWorker,
                          !.over = @ \cup {npu.workers[w].job}]
    /\ UNCHANGED outside_unit

NpuNext ==
    \/ \E j \in Jobs : NpuRunNodePost(j)
    \/ \E w \in NpuWorkers : GetDataFromQueue(w)
    \/ \E w \in NpuWorkers : \E st \in {"DONE", "ERROR"} : ChildResult(w, st)
    \/ \E w \in NpuWorkers : ChildOver(w)

\* an idle worker polls the queue every 0.05 s; a child is over within 30 s
NpuFair ==
    /\ \A w \in NpuWorkers : WF_vars(GetDataFromQueue(w))
    /\ \A w \in NpuWorkers : WF_vars(ChildOver(w))

NpuSpec == Init /\ [][NpuNext]_vars /\ NpuFair

\* ------------------------------------------------------------------ Next
\* the queue and the block driven through their own operations within one
\* process lifetime, the pool threads each taking one step of a _run_node
\* at a time
Next ==
    \/ \E f \in FlowIds : \E n \in NodeNames : AddFcb(f, n)
    \/ \E f \in FlowIds : StartFcb(f)
    \/ \E f \in FlowIds : StopFcb(f)
    \/ \E f \in FlowIds : PauseFcb(f)
    \/ \E f \in FlowIds : ResumeFcb(f)
    \/ \E f \in FlowIds : Resumse(f)
    \/ \E f \in FlowIds : \E i \in DOMAIN tasks[f] : Begin(f, i)
    \/ \E f \in FlowIds : \E i \in DOMAIN tasks[f] :
          \E resp \in ShortResponses : Return(f, i, resp)
    \/ \E f \in FlowIds : \E i \in DOMAIN tasks[f] : Save(f, i)
    \/ \E f \in FlowIds : \E i \in DOMAIN tasks[f] : Upsert(f, i)
    \/ \E f \in FlowIds : \E i \in DOMAIN tasks[f] : ExecCheck(f, i)
    \/ \E f \in FlowIds : \E i \in DOMAIN tasks[f] : Submit(f, i)
    \/ \E f \in FlowIds : \E i \in DOMAIN tasks[f] : PostTrace(f, i)

Spec == Init /\ [][Next]_vars

\* the executor as its HTTP endpoints and lifespan drive it (main.py):
\* /fcb/add, /fcb/{id}/pause, /fcb/{id}/resume, and a restart with recovery
HttpNext ==
    \/ \E f \in FlowIds : \E n \in PointerNames : PostFcbAdd(f, n)
    \/ \E f \in FlowIds : PauseFcb(f)
    \/ \E f \in FlowIds : ResumeFcb(f)
    \/ \E f \in FlowIds : \E i \in DOMAIN tasks[f] : Begin(f, i)
    \/ \E f \in FlowIds : \E i \in DOMAIN tasks[f] :
          \E resp \in Responses : Return(f, i, resp)
    \/ \E f \in FlowIds : \E i \in DOMAIN tasks[f] : Save(f, i)
    \/ \E f \in FlowIds : \E i \in DOMAIN tasks[f] : Upsert(f, i)
    \/ \E f \in FlowIds : \E i \in DOMAIN tasks[f] : ExecCheck(f, i)
    \/ \E f \in FlowIds : \E i \in DOMAIN tasks[f] : Submit(f, i)
    \/ \E f \in FlowIds : \E i \in DOMAIN tasks[f] : PostTrace(f, i)
    \/ Restart

HttpSpec == Init /\ [][HttpNext]_vars

\* ------------------------------------------------- the Trace Recorder
\* one counter for all flows
next_sequence_shared(reg, fid) == Cardinality(collection \cup inserting) + 1

\* flow_registry.get(fid, 0) + 1
next_sequence(reg, fid) == reg[fid] + 1

\* the records of every save_trace call made so far
Recorded == collection \cup inserting

\* POST /trace up to its await: the record gets a fresh uuid4 as _id, the
\* flow's count is incremented and the record takes it as current_sequence
\* (no await lies between the two, so the loop runs them in one piece)
SaveTrace(fl) ==
    /\ Cardinality(Recorded) < MaxTraces
    /\ LET seq == next_sequence(flow_registry, fl)
       IN  /\ flow_registry' = [flow_registry EXCEPT ![fl] = seq]
           /\ inserting' = inserting \cup
                 {[id |-> Cardinality(Recorded) + 1, flow_id |-> fl,
                   current_sequence |-> seq]}
    /\ UNCHANGED collection
    /\ UNCHANGED outside_trc

\* await collection.insert_one(record) of one of the calls completes
InsertOne(t) ==
    /\ t \in inserting
    /\ collection' = collection \cup {t}
    /\ inserting' = inserting \ {t}
    /\ UNCHANGED flow_registry
    /\ UNCHANGED outside_trc

RecNext ==
    \/ \E fl \in TraceFlowIds : SaveTrace(fl)
    \/ \E t \in inserting : InsertOne(t)

RecSpec == Init /\ [][RecNext]_vars

\* ------------------------------------------------- the NPU session
inactive_twice(now, last_seen) == now - last_seen > 2 * ExpirySeconds

\* the test of cleanup_inactive: now - last_seen > self.expiry_seconds
inactive(now, last_seen) == now - last_seen > ExpirySeconds

\* the ids whose hash get_all_npus finds non-empty
Listed == {n \in npu_pool : npu_hash[n].present}

\* get_all_npus, read in one piece: _parse_npu_status raises KeyError on a
\* hash that lacks id and address
get_all_npus ==
    IF \E n \in Listed : ~npu_hash[n].full
    THEN [raised |-> TRUE, npus |-> {}]
    ELSE [raised |-> FALSE, npus |-> Listed]

\* the last heartbeat of n lies more than expiry_seconds back
Silent(n) == clock - npu_hash[n].last_seen > ExpirySeconds

\* time passes
Tick ==
    /\ clock < MaxTime
    /\ clock' = clock + 1
    /\ UNCHANGED <<npu_hash, npu_pool, sweeper, adding, updating, missed>>
    /\ UNCHANGED outside_ses

\* an add_npu that does not test the key
AddNpuExists_overwrite(n) ==
    /\ adding[n] = "idle"
    /\ adding' = [adding EXCEPT ![n] = "hset"]
    /\ UNCHANGED <<clock, npu_hash, npu_pool, sweeper, updating, missed>>
    /\ UNCHANGED outside_ses

\* add_npu: the exists test; on an existing key it raises ValueError (400)
AddNpuExists(n) ==
    /\ adding[n] = "idle"
    /\ adding' = [adding EXCEPT ![n] =
                    IF npu_hash[n].present THEN "idle" ELSE "hset"]
    /\ UNCHANGED <<clock, npu_hash, npu_pool, sweeper, updating, missed>>
    /\ UNCHANGED outside_ses

\* add_npu: hset of every field of NpuStatus(id=npu_id, address=addr); the
\* default of last_seen was evaluated once, when the class was defined
AddNpuHset(n) ==
    /\ adding[n] = "hset"
    /\ npu_hash' = [npu_hash EXCEPT ![n] =
          [present |-> TRUE, full |-> TRUE, last_seen |-> ImportTime,
           metrics |-> "m0"]]
    /\ adding' = [adding EXCEPT ![n] = "sadd"]
    /\ missed' = [missed EXCEPT ![n] = 0]
    /\ UNCHANGED <<clock, npu_pool, sweeper, updating>>
    /\ UNCHANGED outside_ses

\* add_npu: sadd npu:pool
AddNpuSadd(n) ==
    /\ adding[n] = "sadd"
    /\ npu_pool' = npu_pool \cup {n}
    /\ adding' = [adding EXCEPT ![n] = "idle"]
    /\ UNCHANGED <<clock, npu_hash, sweeper, updating, missed>>
    /\ UNCHANGED outside_ses

\* update_metrics: the exists test; on a missing key it raises ValueError (404)
UpdateExists(n) ==
    /\ updating[n] = "idle"
    /\ updating' = [updating EXCEPT ![n] =
                      IF npu_hash[n].present THEN "hset" ELSE "idle"]
    /\ UNCHANGED <<clock, npu_hash, npu_pool, sweeper, adding, missed>>
    /\ UNCHANGED outside_ses

\* update_metrics: hset of metrics and last_seen = time.time() (on a key
\* deleted since the test, the hash it creates holds these two fields only)
UpdateHset(n, m) ==
    /\ updating[n] = "hset"
    /\ npu_hash' = [npu_hash EXCEPT ![n] =
          [present |-> TRUE, full |-> npu_hash[n].full, last_seen |-> clock,
           metrics |-> m]]
    /\ updating' = [updating EXCEPT ![n] = "idle"]
    /\ missed' = [missed EXCEPT ![n] = 0]
    /\ UNCHANGED <<clock, npu_pool, sweeper, adding>>
    /\ UNCHANGED outside_ses

\* cleanup_inactive begins: now = time.time(), smembers npu:pool
SweepBegin ==
    /\ sweeper.pc = "sleep"
    /\ sweeper' = [pc |-> "scan", now |-> clock, todo |-> npu_pool, cur |-> "none"]
    /\ UNCHANGED <<clock, npu_hash, npu_pool, adding, updating, missed>>
    /\ UNCHANGED outside_ses

\* cleanup_inactive: hget last_seen of the next id and the test on it
SweepHget(n) ==
    /\ sweeper.pc = "scan"
    /\ n \in sweeper.todo
    /\ sweeper' =
          IF npu_hash[n].present /\ inactive(sweeper.now, npu_hash[n].last_seen)
          THEN [sweeper EXCEPT !.pc = "delete", !.cur = n, !.todo = @ \ {n}]
          ELSE [sweeper EXCEPT !.todo = @ \ {n}]
    /\ UNCHANGED <<clock, npu_hash, npu_pool, adding, updating, missed>>
    /\ UNCHANGED outside_ses

\* cleanup_inactive: delete npu:{id}
SweepDelete ==
    /\ sweeper.pc = "delete"
    /\ npu_hash' = [npu_hash EXCEPT ![sweeper.cur] = NoKey]
    /\ sweeper' = [sweeper EXCEPT !.pc = "srem"]
    /\ UNCHANGED <<clock, npu_pool, adding, updating, missed>>
    /\ UNCHANGED outside_ses

\* cleanup_inactive: srem npu:pool
SweepSrem ==
    /\ sweeper.pc = "srem"
    /\ npu_pool' = npu_pool \ {sweeper.cur}
    /\ sweeper' = [sweeper EXCEPT !.pc = "scan", !.cur = "none"]
    /\ UNCHANGED <<clock, npu_hash, adding, updating, missed>>
    /\ UNCHANGED outside_ses

\* cleanup_inactive returns and the loop goes to sleep; missed counts, per
\* id, the passes in a row that ended with the id listed though inactive
SweepEnd ==
    /\ sweeper.pc = "scan"
    /\ sweeper.todo = {}
    /\ sweeper' = Asleep
    /\ missed' = [n \in NpuIds |->
          IF n \in Listed /\ Silent(n)
          THEN (IF missed[n] < 2 THEN missed[n] + 1 ELSE 2)
          ELSE 0]
    /\ UNCHANGED <<clock, npu_hash, npu_pool, adding, updating>>
    /\ UNCHANGED outside_ses

SesNext ==
    \/ Tick
    \/ \E n \in NpuIds : AddNpuExists(n)
    \/ \E n \in NpuIds : AddNpuHset(n)
    \/ \E n \in NpuIds : AddNpuSadd(n)
    \/ \E n \in NpuIds : UpdateExists(n)
    \/ \E n \in NpuIds : \E m \in Metrics : UpdateHset(n, m)
    \/ SweepBegin
    \/ \E n \in NpuIds : SweepHget(n)
    \/ SweepDelete
    \/ SweepSrem
    \/ SweepEnd

SesSpec == Init /\ [][SesNext]_vars

\* ------------------------------------------------- secret resolution
\* pattern.findall(text): the keys of the placeholders, in order of occurrence
findall(text) == SelectSeq(text, LAMBDA t : t \in Keys)

\* text.replace("{{{secret::" + key + "}}}", value)
RECURSIVE replace(_, _, _)
replace(text, key, value) ==
    IF text = <<>> THEN <<>>
    ELSE (IF Head(text) = key THEN value ELSE <<Head(text)>>)
         \o replace(Tail(text), key, value)

\* the for loop of resolve_secrets over the keys still to fetch
RECURSIVE resolve_loop(_, _, _)
resolve_loop(text, matches, answers) ==
    IF matches = <<>> THEN [raised |-> FALSE, text |-> text]
    ELSE LET a == answers[Head(matches)]
         IN  IF a.kind = "non200" THEN [raised |-> TRUE, text |-> <<>>]
             ELSE IF a.kind = "novalue" \/ a.value = <<>>
             THEN [raised |-> TRUE, text |-> <<>>]
             ELSE resolve_loop(replace(text, Head(matches), a.value),
                               Tail(matches), answers)

\* Node.resolve_secrets
resolve_secrets(text, answers) ==
    IF findall(text) = <<>> THEN [raised |-> FALSE, text |-> text]
    ELSE resolve_loop(text, findall(text), answers)

\* a call of resolve_secrets on some text, the Secret Manager answering from
\* some table
Resolve(text, answers) ==
    /\ resolving.pc = "idle"
    /\ LET r == resolve_secrets(text, answers)
       IN  resolving' = [pc |-> "done", text |-> text, answers |-> answers,
                         raised |-> r.raised, out |-> r.text]
    /\ UNCHANGED outside_sec

SecNext ==
    \E text \in Texts : \E answers \in [Keys -> Answers] : Resolve(text, answers)

SecSpec == Init /\ [][SecNext]_vars

\* --------------------------------------------- the code of one step (CodSpec)
\* base64.b64encode of a text, and Node.decode_code's b64decode of it
b64encode(text) == <<"b64">> \o text
b64decode(code) == Tail(code)

\* Node.pre_process: decode_code, resolve_secrets, encode_code; the record's
\* code_base64 afterwards, or the error resolve_secrets raised
pre_process(code, answers) ==
    LET r == resolve_secrets(b64decode(code), answers)
    IN  [raised |-> r.raised, code_base64 |-> b64encode(r.text)]

\* executor, Node.run: the payload of POST /nodes/add-node carries the code of
\* the flow's node
NodeRunPost(text, answers) ==
    /\ dispatch.pc = "idle"
    /\ dispatch' = [dispatch EXCEPT !.pc = "posted", !.text = text,
                                    !.answers = answers,
                                    !.submitted = b64encode(text)]
    /\ UNCHANGED outside_cod

\* runner, Manager.run_node up to the stored record: Node(code_base64=code) and
\* pre_process, which raises (the route answers 500) or overwrites the
\* record's code_base64
PreProcess ==
    /\ dispatch.pc = "posted"
    /\ LET p == pre_process(dispatch.submitted, dispatch.answers)
       IN  dispatch' = IF p.raised THEN [dispatch EXCEPT !.pc = "raised"]
                       ELSE [dispatch EXCEPT !.pc = "stored",
                                             !.record = p.code_base64]
    /\ UNCHANGED outside_cod

\* runner, NPU.run_node: the payload of POST {npu}/run-node
NpuRunNode ==
    /\ dispatch.pc = "stored"
    /\ dispatch' = [dispatch EXCEPT !.pc = "running",
                                    !.npu_request = dispatch.record]
    /\ UNCHANGED outside_cod

\* runner, the end of run_node and the add-node route: the record is popped and
\* returned, and the route answers with all its fields, code_base64 among them;
\* Node.run reads and logs the body
AddNodeReturn ==
    /\ dispatch.pc = "running"
    /\ dispatch' = [dispatch EXCEPT !.pc = "answered",
                                    !.response = dispatch.record,
                                    !.record = NoCode]
    /\ UNCHANGED outside_cod

\* executor, exec_hook's save_state_hook: the document holds flow.to_dict(),
\* whose nodes carry Node.code
SaveState ==
    /\ dispatch.pc = "answered"
    /\ dispatch' = [dispatch EXCEPT !.pc = "saved",
                                    !.checkpoint = b64encode(dispatch.text)]
    /\ UNCHANGED outside_cod

\* executor, post_trace_request(code_base64=curr_node.get_code(), ...)
PostTraceCode ==
    /\ dispatch.pc = "saved"
    /\ dispatch' = [dispatch EXCEPT !.pc = "traced",
                                    !.trace = b64encode(dispatch.text)]
    /\ UNCHANGED outside_cod

CodNext ==
    \/ \E text \in Texts : \E answers \in [Keys -> Answers] :
           NodeRunPost(text, answers)
    \/ PreProcess
    \/ NpuRunNode
    \/ AddNodeReturn
    \/ SaveState
    \/ PostTraceCode

CodSpec == Init /\ [][CodNext]_vars

\* ------------------------------------------------- a block's save state
\* Node.to_dict
node_to_dict(node) ==
    [name |-> node.name, code |-> node.code, flow_lvl |-> node.flow_lvl]

\* Node(**d)
Node(d) == [cls |-> "Node", name |-> d.name, code |-> d.code,
            flow_lvl |-> d.flow_lvl]

\* bool(x) of the values the two functions test: None is false, a Node
\* object and a node's three-key dict are true
truthy(x) == x # None

\* Flow.to_dict
flow_to_dict(flow) ==
    [nodes |-> [n \in DOMAIN flow.nodes |-> node_to_dict(flow.nodes[n])],
     curr_inp_data |-> flow.curr_inp_data,
     curr_node |-> IF truthy(flow.curr_node)
                   THEN node_to_dict(flow.curr_node) ELSE None]

\* FlowControlBlock.get_save_state
get_save_state(b) ==
    [flow |-> flow_to_dict(b.flow),
     flow_id |-> str(b.flow_id),
     node_exec_queue |-> [k \in DOMAIN b.node_exec_queue |->
          <<node_to_dict(b.node_exec_queue[k][1]), b.node_exec_queue[k][2]>>],
     status |-> b.status.value]

\* a load that leaves the pending queue empty
load_without_queue(state) ==
    [cls |-> "FlowControlBlock",
     flow |-> [cls |-> "Flow",
               nodes |-> [n \in DOMAIN state.flow.nodes |->
                             Node(state.flow.nodes[n])],
               curr_inp_data |-> state.flow.curr_inp_data,
               curr_node |-> IF truthy(state.flow.curr_node)
                             THEN Node(state.flow.curr_node) ELSE None],
     flow_id |-> UUID(state.flow_id),
     node_exec_queue |-> <<>>,
     status |-> BlockStatus(state.status)]

\* FlowControlBlock.load_from_save_state: the block after the call
load_from_save_state(state) ==
    [cls |-> "FlowControlBlock",
     flow |-> [cls |-> "Flow",
               nodes |-> [n \in DOMAIN state.flow.nodes |->
                             Node(state.flow.nodes[n])],
               curr_inp_data |-> state.flow.curr_inp_data,
               curr_node |-> IF truthy(state.flow.curr_node)
                             THEN Node(state.flow.curr_node) ELSE None],
     flow_id |-> UUID(state.flow_id),
     node_exec_queue |-> [k \in DOMAIN state.node_exec_queue |->
          <<Node(state.node_exec_queue[k][1]), state.node_exec_queue[k][2]>>],
     status |-> BlockStatus(state.status)]

\* get_save_state called on a block
GetSaveState(b) ==
    /\ snapshot.pc = "idle"
    /\ snapshot' = [pc |-> "saved", block |-> b, state |-> get_save_state(b),
                    loaded |-> None]
    /\ UNCHANGED outside_sav

\* load_from_save_state called with that dict
LoadFromSaveState ==
    /\ snapshot.pc = "saved"
    /\ snapshot' = [snapshot EXCEPT !.pc = "loaded",
                        !.loaded = load_from_save_state(snapshot.state)]
    /\ UNCHANGED outside_sav

SavNext ==
    \/ \E b \in BlockObjs : GetSaveState(b)
    \/ LoadFromSaveState

SavSpec == Init /\ [][SavNext]_vars

\* ------------------------------------------- the Node Runner's Manager
\* NpuScheduler.get_next_npu over what get_all_npus returned: None for an
\* empty list, else any entry (random.randint)
get_next_npu(all) == IF all.npus = {} THEN {"None"} ELSE all.npus

\* a get_npu that lets None through
get_npu_unchecked(all) ==
    [raised |-> all.raised, npus |-> get_next_npu(all)]

\* Manager.get_npu: NPU(get_next_npu()) and check_connection, whose answer
\* (reachable or not) is dropped. On None, check_connection reads
\* self.npu_status.address before its try and AttributeError leaves get_npu.
get_npu(all) ==
    IF all.raised \/ get_next_npu(all) = {"None"}
    THEN [raised |-> TRUE, npus |-> {}]
    ELSE [raised |-> FALSE, npus |-> get_next_npu(all)]

\* the texts and Secret Manager answers run_node is followed on
CodeTexts   == {<<"x">>, <<"x", "A">>}
CodeAnswers == {[k \in Keys |-> a] : a \in Answers}

\* a run_node that stores its record first
Call_store_first(r, text, answers) ==
    /\ call[r].pc = "idle"
    /\ active_nodes' = [active_nodes EXCEPT ![r] = NewRec]
    /\ call' = [call EXCEPT ![r].pc =
          IF resolve_secrets(text, answers).raised THEN "secret_error"
          ELSE IF get_npu(get_all_npus).raised THEN "no_npu" ELSE "post"]
    /\ UNCHANGED <<job, accepted, ncb>>
    /\ UNCHANGED outside_mgr

\* Manager.run_node up to line 65: the record is built, pre_process resolves
\* the secrets of the decoded code and get_npu picks an NPU; either may raise,
\* and then the call ends (the endpoint answers 500) with no record stored.
\* Otherwise the record is stored under runner_id.
Call(r, text, answers) ==
    /\ call[r].pc = "idle"
    /\ IF resolve_secrets(text, answers).raised
       THEN /\ call' = [call EXCEPT ![r].pc = "secret_error"]
            /\ UNCHANGED active_nodes
       ELSE IF get_npu(get_all_npus).raised
       THEN /\ call' = [call EXCEPT ![r].pc = "no_npu"]
            /\ UNCHANGED active_nodes
       ELSE /\ active_nodes' = [active_nodes EXCEPT ![r] = NewRec]
            /\ call' = [call EXCEPT ![r].pc = "post"]
    /\ UNCHANGED <<job, accepted, ncb>>
    /\ UNCHANGED outside_mgr

\* the NPU takes the /run-node request of NPU.run_node and answers 202
DeliverJob(r) ==
    /\ call[r].pc = "post"
    /\ job[r] = "none"
    /\ job' = [job EXCEPT ![r] = "sent"]
    /\ UNCHANGED <<active_nodes, call, accepted, ncb>>
    /\ UNCHANGED outside_mgr

\* await npu.run_node(...) is over (its answer, a success or an error dict, is
\* not looked at) and run_node sets the record's status to RUNNING
PostReturn(r) ==
    /\ call[r].pc = "post"
    /\ active_nodes' = [active_nodes EXCEPT ![r].status = "RUNNING"]
    /\ call' = [call EXCEPT ![r].pc = "wait"]
    /\ UNCHANGED <<job, accepted, ncb>>
    /\ UNCHANGED outside_mgr

TerminalOrRunning(status) == status \in {"DONE", "ERROR", "RUNNING"}

\* the test of check_the_result's loop: it leaves on DONE or ERROR
Terminal(status) == status \in {"DONE", "ERROR"}

\* check_the_result, on its own thread, finds the loop test false and returns
Poll(r) ==
    /\ call[r].pc = "wait"
    /\ Terminal(active_nodes[r].status)
    /\ call' = [call EXCEPT ![r].pc = "wake"]
    /\ UNCHANGED <<active_nodes, job, accepted, ncb>>
    /\ UNCHANGED outside_mgr

\* run_node resumes on the event loop: pop the record and return it
Finish(r) ==
    /\ call[r].pc = "wake"
    /\ call' = [call EXCEPT ![r] = [pc |-> "returned", ret |-> active_nodes[r]]]
    /\ active_nodes' = [active_nodes EXCEPT ![r] = NoRec]
    /\ UNCHANGED <<job, accepted, ncb>>
    /\ UNCHANGED outside_mgr

\* Manager.retrun_hook on a stored record
retrun_hook(rec, st, o) ==
    [rec EXCEPT !.outputs = [payload |-> o, status |-> st],
                !.status = IF st = "ERROR" THEN "ERROR"
                           ELSE IF st = "DONE" THEN "DONE" ELSE @]

\* POST /npu/result/{runner_id} on the table an: what the route answers and
\* the table after it. For an id with no stored record retrun_hook raises
\* ValueError and the route answers 500.
return_node(an, r, st, o) ==
    IF an[r] = NoRec
    THEN [code |-> 500, table |-> an]
    ELSE [code |-> 201, table |-> [an EXCEPT ![r] = retrun_hook(@, st, o)]]

\* an add_log that stores a record for an id it does not know
add_log_setdefault(an, r, line) ==
    [raised |-> FALSE,
     table |-> [an EXCEPT ![r].status = IF an[r] = NoRec THEN "QUEUED" ELSE @,
                          ![r].logs = Append(@, line)]]

\* Manager.add_log on the table an
add_log(an, r, line) ==
    IF an[r] = NoRec
    THEN [raised |-> TRUE, table |-> an]
    ELSE [raised |-> FALSE, table |-> [an EXCEPT ![r].logs = Append(@, line)]]

\* POST /npu/log/{runner_id}: 201, or 500 when add_log raised
add_logs(an, r, line) ==
    [code |-> IF add_log(an, r, line).raised THEN 500 ELSE 201,
     table |-> add_log(an, r, line).table]

\* the lines an NPU sends
LogLines == {"l1", "l2"}

\* POST /npu/result/{runner_id} with status st (the route admits DONE and
\* ERROR only). The NPU knows an id once it has its job.
ResultCallback(r, st, o) ==
    /\ ncb < MaxCallbacks
    /\ ncb' = ncb + 1
    /\ active_nodes[r] = NoRec \/ job[r] = "sent"
    /\ active_nodes' = return_node(active_nodes, r, st, o).table
    /\ accepted' = [accepted EXCEPT ![r] =
          IF return_node(active_nodes, r, st, o).code = 201
          THEN @ \cup {[payload |-> o, status |-> st]} ELSE @]
    /\ UNCHANGED <<call, job>>
    /\ UNCHANGED outside_mgr

\* POST /npu/log/{runner_id} with one line
LogCallback(r, line) ==
    /\ ncb < MaxCallbacks
    /\ ncb' = ncb + 1
    /\ active_nodes[r] = NoRec \/ job[r] = "sent"
    /\ Len(add_logs(active_nodes, r, line).table[r].logs) <= MaxLogs
    /\ active_nodes' = add_logs(active_nodes, r, line).table
    /\ UNCHANGED <<call, job, accepted>>
    /\ UNCHANGED outside_mgr

\* the NPU whose registration run_node is followed with
PoolIds == {"n1"}

MgrNext ==
    \/ \E r \in RunnerIds : \E text \in CodeTexts :
          \E answers \in CodeAnswers : Call(r, text, answers)
    \/ \E r \in RunnerIds : DeliverJob(r)
    \/ \E r \in RunnerIds : PostReturn(r)
    \/ \E r \in RunnerIds : Poll(r)
    \/ \E r \in RunnerIds : Finish(r)
    \/ \E r \in RunnerIds : \E st \in {"DONE", "ERROR"} :
          \E o \in Payloads : ResultCallback(r, st, o)
    \/ \E r \in RunnerIds : \E line \in LogLines : LogCallback(r, line)
    \/ \E n \in PoolIds : AddNpuExists(n)
    \/ \E n \in PoolIds : AddNpuHset(n)
    \/ \E n \in PoolIds : AddNpuSadd(n)

MgrSpec == Init /\ [][MgrNext]_vars

\* ---------------------------------------------------------------- claims
LiveTasks(f) == {i \in DOMAIN tasks[f] : Live(tasks[f][i])}
TracesOf(f, k) == {j \in DOMAIN traces[f] : traces[f][j].step = k}

\* C1: per flow, trace records reach the Trace Recorder in the order in which
\* the pointer visited the nodes: the trace of step k before that of step k+1.
C1_TraceOrderIsStepOrder ==
    \A f \in FlowIds : \A i, j \in DOMAIN traces[f] :
        i < j => traces[f][i].step < traces[f][j].step

\* C2: at most one _run_node of an FCB is submitted or running at any time.
C2_OneStepInFlight ==
    \A f \in FlowIds : Cardinality(LiveTasks(f)) <= 1

\* C3: every executed step, whether its dispatch succeeded or failed, has
\* produced exactly one trace record.
C3_OneTracePerStep ==
    \A f \in FlowIds : \A i \in DOMAIN tasks[f] :
        (tasks[f][i].pc = "done" /\ tasks[f][i].step > 0)
            => Cardinality(TracesOf(f, tasks[f][i].step)) = 1

\* C4: STOP is absorbing: the status of a stopped block never changes again
\* and no further step of it is submitted.
C4_StopAbsorbing ==
    [][crashes' = crashes =>
        \A f \in FlowIds : fcb[f].status = "STOP" =>
            /\ fcb'[f].status = "STOP"
            /\ Len(tasks'[f]) = Len(tasks[f])]_vars

\* C5: a restart registers and starts, at the pointer it had reached, every
\* flow that was accepted and had not reached STOP.
C5_RestartKeepsInFlightFlows ==
    [][crashes' = crashes + 1 =>
        \A f \in Blocks : fcb[f].status \in {"START", "PAUSE"} =>
            /\ f \in Blocks'
            /\ fcb'[f].status = "START"
            /\ fcb'[f].curr_node = fcb[f].curr_node
            /\ fcb'[f].curr_inp_data = fcb[f].curr_inp_data
            /\ \E i \in DOMAIN tasks'[f] : tasks'[f][i].pc = "queued"]_vars

\* C6: once an FCB has reached STOP and its steps have returned, the store
\* holds no document for its flow id.
C6_StoppedFlowHasNoDocument ==
    \A f \in FlowIds :
        (fcb[f].status = "STOP" /\ LiveTasks(f) = {}) => store[f] = NoDoc

\* C7: while the status stays PAUSE no step of the FCB is submitted.
C7_NoSubmitWhilePaused ==
    [][\A f \in FlowIds :
        (fcb[f].status = "PAUSE" /\ fcb'[f].status = "PAUSE")
            => Len(tasks'[f]) = Len(tasks[f])]_vars

\* C8: the queue's resume on a registered, paused FCB sets its status to
\* START and submits exactly one new step.
C8_ResumePausedStarts ==
    \A f \in Blocks :
        (fcb[f].status = "PAUSE" /\ Len(tasks[f]) < MaxSubmit) =>
            ENABLED (/\ ResumeFcb(f)
                     /\ fcb'[f].status = "START"
                     /\ Len(tasks'[f]) = Len(tasks[f]) + 1)

\* C9: resume on an FCB that is not paused changes nothing: status, pointer,
\* pending queue and submissions stay as they were.
C9_ResumeNotPausedIsNoOp ==
    [][\A f \in FlowIds :
        ((Resumse(f) \/ ResumeFcb(f)) /\ fcb[f].status # "PAUSE")
            => UNCHANGED <<fcb, tasks, Blocks, store>>]_vars

\* resumse can be called on a started block with a step in flight
C9_Witness ==
    \E f \in Blocks :
        /\ fcb[f].status = "START"
        /\ LiveTasks(f) # {}
        /\ ENABLED Resumse(f)

\* C10: run_node returns only a record whose status is DONE or ERROR and
\* whose outputs were set by a result callback for the same runner id.
C10_ReturnsTerminalRecord ==
    \A r \in RunnerIds : call[r].pc = "returned" =>
        /\ call[r].ret.status \in {"DONE", "ERROR"}
        /\ call[r].ret.outputs \in accepted[r]

\* a run_node call has returned a DONE record, another an ERROR record
C10_Witness ==
    \E r, q \in RunnerIds :
        /\ call[r].pc = "returned" /\ call[r].ret.status = "DONE"
        /\ call[q].pc = "returned" /\ call[q].ret.status = "ERROR"

\* C11: once a result callback has written a terminal status into a stored
\* record, no later step of the manager replaces it by a non-terminal one
\* while the record is stored (so the run_node blocked on it can leave its
\* polling loop and return).
C11_TerminalStatusKept ==
    [][\A r \in RunnerIds :
        (Terminal(active_nodes[r].status) /\ active_nodes'[r] # NoRec)
            => Terminal(active_nodes'[r].status)]_vars

\* a response's outputs.nodes holds a name that is no key of flow.nodes
HasUnknown(resp) ==
    resp.kind = "ok" /\ \E k \in DOMAIN resp.nodes : resp.nodes[k] \notin NodeNames

\* C12: a step whose outputs.nodes holds an unknown name stops the FCB, leaves
\* the pointer where it was, leaves none of the step's successors in the
\* pending queue (those named before the unknown one included) and submits
\* no further step.
C12_UnknownSuccessorStopsClean ==
    [][\A f \in FlowIds : \A i \in DOMAIN tasks[f] : \A resp \in Responses :
        (HasUnknown(resp) /\ Return(f, i, resp)) =>
            /\ fcb'[f].status = "STOP"
            /\ fcb'[f].curr_node = fcb[f].curr_node
            /\ fcb'[f].curr_inp_data = fcb[f].curr_inp_data
            /\ fcb'[f].node_exec_queue = fcb[f].node_exec_queue
            /\ Len(tasks'[f]) = Len(tasks[f])]_vars

\* C13: when the dispatch fails, Node.run yields a result with status
\* "failed", the FCB moves to STOP and the step goes on to post its trace;
\* no further step is submitted.
C13_FailedDispatchTraced ==
    [][\A f \in FlowIds : \A i \in DOMAIN tasks[f] : \A resp \in Responses :
        (resp.kind = "error" /\ Return(f, i, resp)) =>
            /\ ~NodeRun(resp).raised
            /\ NodeRun(resp).status = "failed"
            /\ fcb'[f].status = "STOP"
            /\ tasks'[f][i].pc = "trace"
            /\ Len(tasks'[f]) = Len(tasks[f])]_vars

\* C14: a step whose outputs carry the status ERROR is a step failure: the
\* FCB moves to STOP and goes on to its trace without submitting a step,
\* whatever the pending queue holds.
C14_ErrorOutputStops ==
    [][\A f \in FlowIds : \A i \in DOMAIN tasks[f] : \A resp \in Responses :
        (NodeRun(resp).outputs_status = "ERROR" /\ Return(f, i, resp)) =>
            /\ fcb'[f].status = "STOP"
            /\ tasks'[f][i].pc = "trace"]_vars

\* the current_sequence values among a set of records of flow fl
SeqsOf(S, fl) == {t.current_sequence : t \in {u \in S : u.flow_id = fl}}
CallsOf(S, fl) == Cardinality({u \in S : u.flow_id = fl})

Registered(n) == n \in npu_pool /\ npu_hash[n].full

\* C16: an NPU that has been inactive for more than expiry_seconds is removed
\* within two passes of the sweeper (it is never still listed at the end of a
\* second pass in a row), and an id that is not registered is not returned by
\* get_all_npus and becomes registered again only through add_npu.
C16_InactiveNpuSwept ==
    [][\A n \in NpuIds :
        /\ missed'[n] < 2
        /\ ~Registered(n)' => n \notin get_all_npus'.npus
        /\ (~Registered(n) /\ Registered(n)') => adding[n] # "idle"]_vars

\* an id whose last heartbeat lies more than expiry_seconds back was still
\* listed when one pass ended, and the next pass is about to delete it
C16_Witness ==
    \E n \in NpuIds :
        /\ missed[n] = 1
        /\ npu_hash[n].last_seen > ImportTime
        /\ sweeper.pc = "delete" /\ sweeper.cur = n
        /\ updating[n] = "idle" /\ adding[n] = "idle"

\* every key that occurs in the text has a non-empty value
AllResolve(text, answers) ==
    \A i \in DOMAIN text : text[i] \in Keys =>
        (answers[text[i]].kind = "ok" /\ answers[text[i]].value # <<>>)

\* the text with each placeholder replaced by the value of its key
RECURSIVE OnePass(_, _)
OnePass(text, answers) ==
    IF text = <<>> THEN <<>>
    ELSE (IF Head(text) \in Keys THEN answers[Head(text)].value
          ELSE <<Head(text)>>) \o OnePass(Tail(text), answers)

\* C17: when every referenced key resolves, resolve_secrets returns the text
\* with every occurrence of every placeholder replaced by the value of its key
\* and nothing else changed; a text without placeholders comes back as it is.
C17_PlaceholdersReplaced ==
    (resolving.pc = "done" /\ AllResolve(resolving.text, resolving.answers)) =>
        /\ ~resolving.raised
        /\ resolving.out = OnePass(resolving.text, resolving.answers)
        /\ findall(resolving.text) = <<>> => resolving.out = resolving.text

\* C18: a value that itself holds a placeholder is inserted verbatim: the
\* placeholder it holds is still in the result, whatever else the text names.
C18_ValuesNotRescanned ==
    (resolving.pc = "done" /\ ~resolving.raised) =>
        \A i \in DOMAIN resolving.text : \A k \in Keys :
            (/\ resolving.text[i] \in Keys
             /\ \E j \in DOMAIN resolving.answers[resolving.text[i]].value :
                    resolving.answers[resolving.text[i]].value[j] = k)
                => \E j \in DOMAIN resolving.out : resolving.out[j] = k


\* C19: when the Secret Manager answers some placeholder of the code with a
\* status other than 200, without a value field or with an empty value,
\* run_node ends with an error, nothing is posted to an NPU under that
\* runner_id and the in-flight table holds no record under it, then and later.
C19_SecretFailureLeavesNothing ==
    [][/\ \A r \in RunnerIds : \A text \in CodeTexts : \A answers \in CodeAnswers :
            (~AllResolve(text, answers) /\ Call(r, text, answers)) =>
                /\ call'[r].pc = "secret_error"
                /\ job'[r] = "none"
                /\ active_nodes'[r] = NoRec
       /\ \A r \in RunnerIds : call'[r].pc = "secret_error" =>
            (job'[r] = "none" /\ active_nodes'[r] = NoRec)]_vars

\* a run_node stopped by its secrets although an NPU is registered, next to
\* one that went through
C19_Witness ==
    /\ call["r1"].pc = "secret_error"
    /\ \E n \in NpuIds : Registered(n)
    /\ job["r2"] = "sent"
    /\ active_nodes["r2"] # NoRec

\* the Node Runner's half of C20: with no NPU to pick, run_node ends with an
\* error instead of waiting, nothing is posted to an NPU under that runner_id
\* and the in-flight table holds no record under it, then and later.
C20_EmptyPoolFailsFast ==
    [][/\ \A r \in RunnerIds : \A text \in CodeTexts : \A answers \in CodeAnswers :
            (AllResolve(text, answers) /\ get_all_npus.npus = {}
                /\ Call(r, text, answers)) =>
                /\ call'[r].pc = "no_npu"
                /\ job'[r] = "none"
                /\ active_nodes'[r] = NoRec
       /\ \A r \in RunnerIds : call'[r].pc = "no_npu" =>
            (job'[r] = "none" /\ active_nodes'[r] = NoRec)]_vars

\* a run_node stopped by the empty pool, and a later one served once an NPU
\* has registered
C20_Witness ==
    /\ call["r1"].pc = "no_npu"
    /\ \E n \in NpuIds : Registered(n)
    /\ job["r2"] = "sent"
    /\ active_nodes["r2"] # NoRec

\* what POST /nodes/add-node answers when run_node raised: the exception
\* leaves the route and the executor's Node.run gets a 500
add_node_raised == [kind |-> "error", nodes |-> <<>>, status |-> "none"]

\* C20: with an empty NPU pool run_node fails with an error returned to the
\* caller, and the FCB that issued the dispatch sees a step failure: a
\* "failed" result, STOP, and the step goes on to post its trace.
C20_EmptyPoolStepFailure ==
    [][\A f \in FlowIds : \A i \in DOMAIN tasks[f] :
        Return(f, i, add_node_raised) =>
            /\ NodeRun(add_node_raised).status = "failed"
            /\ fcb'[f].status = "STOP"
            /\ tasks'[f][i].pc = "trace"]_vars

\* C21: a block loaded from the save state of a block has the same
\* flow.nodes, the same curr_node (None when it was None), the same
\* curr_inp_data, the same pending queue and the same status.
C21_SaveStateRoundTrip ==
    snapshot.pc = "loaded" =>
        /\ snapshot.loaded.flow.nodes = snapshot.block.flow.nodes
        /\ snapshot.loaded.flow.curr_node = snapshot.block.flow.curr_node
        /\ snapshot.loaded.flow.curr_inp_data = snapshot.block.flow.curr_inp_data
        /\ snapshot.loaded.node_exec_queue = snapshot.block.node_exec_queue
        /\ snapshot.loaded.status = snapshot.block.status

\* a paused block with no pointer and two pending entries has gone through
C21_Witness ==
    /\ snapshot.pc = "loaded"
    /\ snapshot.block.flow.curr_node = None
    /\ snapshot.state.flow.curr_node = None
    /\ Len(snapshot.block.node_exec_queue) = 2
    /\ snapshot.block.status = BlockStatus("PAUSE")
    /\ DOMAIN snapshot.block.flow.nodes = NodeNames


\* C22: a result callback that repeats the one last accepted for its
\* runner_id (same status, same payload) leaves the in-flight table as the
\* first delivery left it, and so the record run_node returns.
C22_RepeatedResultIsNoOp ==
    [][\A r \in RunnerIds : \A st \in {"DONE", "ERROR"} : \A o \in Payloads :
        (/\ active_nodes[r] # NoRec
         /\ active_nodes[r].outputs = [payload |-> o, status |-> st]
         /\ ResultCallback(r, st, o)) => active_nodes' = active_nodes]_vars


\* C23: a result callback or a log callback for a runner_id with no record in
\* the in-flight table is answered 500 and leaves the table as it was; a log
\* callback for a stored record is answered 201 and puts its line at the end
\* of that record's logs, changing nothing else.
C23_UnknownIdRejected ==
    [][\A r \in RunnerIds :
        /\ \A st \in {"DONE", "ERROR"} : \A o \in Payloads :
              (active_nodes[r] = NoRec /\ ResultCallback(r, st, o)) =>
                  /\ return_node(active_nodes, r, st, o).code = 500
                  /\ active_nodes' = active_nodes
        /\ \A line \in LogLines :
              LogCallback(r, line) =>
                  IF active_nodes[r] = NoRec
                  THEN /\ add_logs(active_nodes, r, line).code = 500
                       /\ active_nodes' = active_nodes
                  ELSE /\ add_logs(active_nodes, r, line).code = 201
                       /\ active_nodes' = [active_nodes EXCEPT
                             ![r].logs = active_nodes[r].logs \o <<line>>]]_vars

\* three callbacks were delivered: two put their lines, in order, on the
\* record of r1 and the third found no record
C23_Witness ==
    /\ ncb = 3
    /\ active_nodes["r1"].logs = <<"l1", "l2">>
    /\ accepted["r1"] = {}
    /\ job["r2"] = "none"

\* C24: add_npu on an id whose entry exists fails and leaves the entries and
\* the pool as they were; update_metrics on an id with no entry fails and
\* creates none; update_metrics on an id whose entry exists puts the given
\* metrics and the current time as last_seen into it and changes nothing else.
C24_AddAndUpdateContracts ==
    [][\A n \in NpuIds :
        /\ (npu_hash[n].present /\ AddNpuExists(n)) =>
              /\ adding'[n] = "idle"
              /\ npu_hash' = npu_hash /\ npu_pool' = npu_pool
        /\ (~npu_hash[n].present /\ UpdateExists(n)) =>
              /\ updating'[n] = "idle"
              /\ npu_hash' = npu_hash /\ npu_pool' = npu_pool
        /\ \A m \in Metrics :
              (npu_hash[n].present /\ UpdateHset(n, m)) =>
                  /\ npu_hash' = [npu_hash EXCEPT ![n].metrics = m,
                                                  ![n].last_seen = clock]
                  /\ npu_pool' = npu_pool]_vars

\* a registered id whose entry is still the one add_npu wrote and on which
\* the test of a second add_npu is due, next to one whose heartbeat has
\* replaced its metrics and last_seen
C24_Witness ==
    /\ Registered("n1") /\ Registered("n2")
    /\ npu_hash["n1"].metrics = "m0" /\ npu_hash["n1"].last_seen = ImportTime
    /\ npu_hash["n2"].metrics = "m1" /\ npu_hash["n2"].last_seen > ImportTime
    /\ ENABLED AddNpuExists("n1")
    /\ clock > npu_hash["n2"].last_seen


\* C25: whenever get_next_npu is called it returns, and it returns None only
\* when the session holds no registered NPU; otherwise what it returns is one
\* of the NPUs get_all_npus lists.
C25_NextNpuIsListed ==
    /\ ~get_all_npus.raised
    /\ get_next_npu(get_all_npus) = {"None"} => ~\E n \in NpuIds : Registered(n)
    /\ get_next_npu(get_all_npus) # {"None"} =>
          get_next_npu(get_all_npus) \subseteq Listed

\* C26: in every state of every block, right after /fcb/add and right after
\* recovery included, curr_node is None or a node whose name is a key of
\* flow.nodes.
C26_PointerInFlow ==
    \A f \in FlowIds : fcb[f].curr_node \in {NoNode} \cup NodeNames


\* C27: the status of a block changes only from QUEUED to START, from START
\* to PAUSE, from PAUSE to START, and from a status other than STOP to STOP;
\* pause leaves a QUEUED block as it is, and start leaves a START or PAUSE
\* block as it is and submits nothing.
C27_StatusTransitions ==
    [][\A f \in FlowIds :
        /\ (fcb[f].status # "ABSENT" /\ fcb'[f].status # fcb[f].status) =>
              \/ <<fcb[f].status, fcb'[f].status>> \in
                    {<<"QUEUED", "START">>, <<"START", "PAUSE">>,
                     <<"PAUSE", "START">>}
              \/ (fcb[f].status # "STOP" /\ fcb'[f].status = "STOP")
        /\ (fcb[f].status = "QUEUED" /\ PauseFcb(f)) => fcb'[f] = fcb[f]
        /\ (fcb[f].status \in {"START", "PAUSE"} /\ StartFcb(f)) =>
              (fcb'[f] = fcb[f] /\ tasks'[f] = tasks[f])]_vars


\* C28: once stop_fcb has returned for a flow, the store holds no document
\* of that flow in any later state, whatever a step of the flow that was in
\* flight does with its checkpoint.
C28_NoDocumentAfterStop ==
    \A f \in FlowIds : (f \in used /\ f \notin Blocks) => store[f] = NoDoc


\* C29: when the dispatch of a step returns after its block was stopped, the
\* result is discarded: pointer, input and pending queue of the block stay as
\* they were and the step does not go on to a checkpoint.
C29_ResultAfterStopDiscarded ==
    [][\A f \in FlowIds : \A i \in DOMAIN tasks[f] : \A resp \in Responses :
        (fcb[f].status = "STOP" /\ f \notin Blocks /\ Return(f, i, resp)) =>
            /\ fcb'[f].curr_node = fcb[f].curr_node
            /\ fcb'[f].curr_inp_data = fcb[f].curr_inp_data
            /\ fcb'[f].node_exec_queue = fcb[f].node_exec_queue
            /\ tasks'[f][i].pc # "save"]_vars


\* C30: a flow that crashes after a checkpoint resumes as it would have gone
\* on without the crash: recovery gives the block the checkpointed pointer
\* and input, and no node that was pending at the crash is lost.
C30_RecoveryLosesNoNode ==
    [][crashes' = crashes + 1 =>
        \A f \in Blocks :
            (store[f] # NoDoc /\ to_dict(fcb[f]) = store[f]) =>
                /\ fcb'[f].curr_node = fcb[f].curr_node
                /\ fcb'[f].curr_inp_data = fcb[f].curr_inp_data
                /\ fcb'[f].node_exec_queue = fcb[f].node_exec_queue]_vars


Pending(b, node, ns) ==
    b.node_exec_queue \o [k \in DOMAIN ns |-> <<ns[k], node>>]

\* C32: exec_hook puts the successors behind the pending entries, in the
\* order of outputs.nodes and each with the outputs of the node just run, and
\* the next pointer is the oldest pending entry: its node, with the outputs
\* of the node that named it as the input.
C32_FifoSuccessors ==
    [][\A f \in FlowIds : \A i \in DOMAIN tasks[f] : \A resp \in Responses :
        (resp.kind = "ok" /\ ~HasUnknown(resp) /\ Return(f, i, resp)
            /\ Pending(fcb[f], tasks[f][i].node, resp.nodes) # <<>>) =>
            LET p == Pending(fcb[f], tasks[f][i].node, resp.nodes)
            IN  /\ fcb'[f].curr_node = p[1][1]
                /\ fcb'[f].curr_inp_data = p[1][2]
                /\ fcb'[f].node_exec_queue = Tail(p)]_vars

\* b named a and b; a, run second, named a and b again: the pointer is the b
\* that b named, ahead of the two entries a named
C32_Witness ==
    \E f \in FlowIds :
        /\ fcb[f].curr_node = "b"
        /\ fcb[f].curr_inp_data = "b"
        /\ fcb[f].node_exec_queue = << <<"a", "a">>, <<"b", "a">> >>


\* C33: after every step the pending queue holds no more entries than the
\* step just executed named successors: entries of earlier steps do not
\* accumulate in it.
C33_QueueBoundedByLastStep ==
    [][\A f \in FlowIds : \A i \in DOMAIN tasks[f] : \A resp \in Responses :
        (resp.kind = "ok" /\ Return(f, i, resp)) =>
            Len(fcb'[f].node_exec_queue) <= Len(resp.nodes)]_vars


\* C34: whenever no add_npu, update_metrics or sweeper pass is in progress,
\* the hash npu:{id} exists exactly when id is in npu:pool, and every hash
\* that exists holds id, address, last_seen and metrics.
C34_HashAndPoolAgree ==
    (/\ sweeper.pc = "sleep"
     /\ \A n \in NpuIds : adding[n] = "idle" /\ updating[n] = "idle") =>
        \A n \in NpuIds :
            /\ npu_hash[n].present <=> n \in npu_pool
            /\ npu_hash[n].present => npu_hash[n].full


\* the copy of the code at a place does not depend on the secrets' values
Original(code) == code # NoCode => code = b64encode(dispatch.text)

\* C35: the trace record and the checkpoint hold the base64 submitted with the
\* flow, and the secret-resolved code is nowhere but in the runner's in-flight
\* record and in the request sent to the NPU: what the executor stores and
\* what it receives are the same whatever the secrets' values are.
C35_ResolvedCodeStaysInRunner ==
    /\ Original(dispatch.trace)
    /\ Original(dispatch.checkpoint)
    /\ Original(dispatch.response)

\* the part of C35 on what is stored: trace.code and the checkpoint are the
\* submitted base64
C35_StoredCodeIsOriginal ==
    dispatch.pc = "traced" =>
        /\ dispatch.trace = dispatch.submitted
        /\ dispatch.checkpoint = dispatch.submitted
        /\ dispatch.npu_request = b64encode(
               resolve_secrets(dispatch.text, dispatch.answers).text)

\* a step whose code names a secret is traced
C35_StoredWitness ==
    /\ dispatch.pc = "traced"
    /\ dispatch.npu_request # dispatch.submitted


\* the documents of the collection that can be reconstructed
WellFormed == {i \in DOMAIN recovery.docs :
                 recovery.docs[i].shape \in {"pointer", "ended"}}

\* C36: when recover_from_storage has returned and the collection could be
\* read to its end, every well-formed document is registered under its flow_id
\* and started, whatever documents that cannot be reconstructed came before or
\* after it, and no such document is registered.
C36_BadDocumentSkipped ==
    (recovery.pc \in {"done", "aborted"} /\ ~recovery.fetch_error) =>
        \A i \in DOMAIN recovery.docs :
            LET doc == recovery.docs[i]
            IN  IF i \in WellFormed
                THEN /\ recovery.Blocks[doc.flow_id].status = "START"
                     /\ recovery.Blocks[doc.flow_id].curr_node =
                            (IF doc.shape = "pointer" THEN "a" ELSE NoNode)
                ELSE /\ recovery.Blocks[doc.flow_id] = NoFcb
                     /\ doc.flow_id \in recovery.failed

\* recovery is over, a bad document stood before a well-formed one and after
\* another
C36_Witness ==
    /\ recovery.pc = "done"
    /\ \E i, j, k \in DOMAIN recovery.docs :
          /\ i < j /\ j < k
          /\ i \in WellFormed /\ k \in WellFormed /\ j \notin WellFormed
          /\ recovery.Blocks[recovery.docs[k].flow_id].status = "START"


\* C37: a run_node whose POST of /run-node did not reach the NPU (unreachable,
\* timeout, non-2xx) does not wait for a result: past the POST, its record is
\* out of the in-flight table and the call is not in check_the_result.
C37_FailedPostEndsCall ==
    \A r \in RunnerIds :
        (call[r].pc \notin {"idle", "post"} /\ job[r] = "none") =>
            /\ active_nodes[r] = NoRec
            /\ call[r].pc # "wait"


\* C38: the hset of add_npu writes the time of the registration as last_seen,
\* so that the sweeper's test now - last_seen > expiry_seconds counts the
\* silence of a new NPU from its registration.
C38_LastSeenIsRegistrationTime ==
    [][\A n \in NpuIds : AddNpuHset(n) => npu_hash'[n].last_seen = clock]_vars


C40_EveryJobAnswered ==
    /\ [](\A j \in Jobs : npu.taken[j] <= 1)
    /\ \A j \in Jobs : (j \in npu.posted) ~> (npu.result[j] \in {"DONE", "ERROR"})

\* the part of C40 on the queue: no job is taken twice, and every accepted
\* job is eventually taken and its child eventually over
C40_TakenOnce == \A j \in Jobs : npu.taken[j] <= 1

C40_EveryJobTaken == \A j \in Jobs : (j \in npu.posted) ~> (j \in npu.over)

\* a worker is through with a job only after its result has been sent
C40_FinishedJobHasResult ==
    \A j \in Jobs : j \in npu.over => npu.result[j] \in {"DONE", "ERROR"}

====
